---- MODULE Spec2Model ----
(***************************************************************************)
(* Model of common/submissions.py of pygrader: the deadline check          *)
(* (check_late), the synchronisation of a team's repository                *)
(* (checkout_to_team_branch), the test decorators tag() and branch()       *)
(* (with to_branch) and apply_patch.                                       *)
(*                                                                         *)
(* The git repository the functions drive through GitPython is a record:   *)
(*   branches  local branches, name -> commit                              *)
(*   tags      local tags, name -> commit                                  *)
(*   remotes   registered remotes, name -> url                             *)
(*   rrefs     remote-tracking refs, <<remote, branch>> -> commit          *)
(*   head      [ref: the checked-out branch, "" when detached; commit]     *)
(*   modified  tracked files with uncommitted changes                      *)
(*   untracked untracked files of the working tree                         *)
(*   applying  a git am session is in progress (.git/rebase-apply exists)  *)
(*   followRemoteHEAD  the installed git creates refs/remotes/<r>/HEAD     *)
(*             when it fetches a remote's branches (git 2.48 and later)    *)
(* A handler is evaluated as the source executes it, one git call after    *)
(* the other, on a "run" [repo, log, ok]: log is the sequence of calls     *)
(* made so far and ok tells whether the last call succeeded.  A git call   *)
(* fails when the repository makes it fail (a missing ref, a remote that   *)
(* exists already, ...) or when the environment does (network, locks,      *)
(* conflicts): the set F of an invocation names the calls the environment  *)
(* makes fail.                                                             *)
(***************************************************************************)
EXTENDS Integers, Sequences, FiniteSets, TLC

VARIABLES
    repo,         \* the local git repository and its working tree
    server,       \* the hosted repositories, team_repo_id -> snapshot
    tag_name,     \* closure cell of each tag()-decorated test
    branch_name,  \* closure cell of each branch()-decorated test
    pc,           \* "idle", or "shell" while os.system("bash") blocks
    cur,          \* the invocation running or last run
    log,          \* the git/os calls of that invocation, in order
    ret,          \* how that invocation ended
    seen,         \* the working tree the test body found when it last started
    prev,         \* the invocation before that one (history)
    calls,        \* number of invocations and environment events so far
    late          \* state of the check_late runs

vars == <<repo, server, tag_name, branch_name, pc, cur, log, ret, seen, prev, calls, late>>

(***************************************************************************)
(* Bounds and input sets.                                                  *)
(***************************************************************************)
MaxCalls == 3

Teams == {"t1", "t2"}
RepoIdOf == ("t1" :> "cs/hw-t1") @@ ("t2" :> "cs/hw-t2")
BranchArgs == {"main", "dev"}
TagArgs == {"main", "hw1"}
Files == {"f"}
NewFiles == {"u"}

\* Commits: 0 is the skeleton; 1 and 2 are submitted commits, 1 an ancestor of 2.
Reachable(c, from) == c <= from

\* What a hosted repository holds, push after push: a first submission, a
\* second one with a dev branch and a new tag, the first tag deleted, and
\* the main branch deleted.
Timeline ==
    << [heads |-> ("main" :> 1), tags |-> ("hw1" :> 1)],
       [heads |-> ("main" :> 2) @@ ("dev" :> 1), tags |-> ("hw1" :> 1) @@ ("hw2" :> 2)],
       [heads |-> ("main" :> 2) @@ ("dev" :> 1), tags |-> ("hw2" :> 2)],
       [heads |-> ("dev" :> 1), tags |-> ("hw2" :> 2)] >>

NoRefs == [x \in {} |-> 0]
Without(f, ks) == [k \in DOMAIN f \ ks |-> f[k]]

(***************************************************************************)
(* git, as GitPython runs it.                                              *)
(***************************************************************************)
\* A log entry: the call, its argument, whether it succeeded, and whether it
\* failed only because the environment made it fail.
Logged(x, op, arg, can, fault) ==
    Append(x.log, [op |-> op, arg |-> arg, ok |-> can /\ ~fault, env |-> can /\ fault])

RemoteRefName(k) == k[1] \o "/" \o k[2]

\* The commit a ref name resolves to: HEAD, a local branch, else a tag, else
\* a remote-tracking ref, else the HEAD of the remote of that name; -1 when
\* nothing has the name.
ResolveRef(r, ref) ==
    IF ref = "HEAD" THEN r.head.commit
    ELSE IF ref \in DOMAIN r.branches THEN r.branches[ref]
    ELSE IF ref \in DOMAIN r.tags THEN r.tags[ref]
    ELSE IF \E k \in DOMAIN r.rrefs : RemoteRefName(k) = ref
         THEN r.rrefs[CHOOSE k \in DOMAIN r.rrefs : RemoteRefName(k) = ref]
    ELSE IF <<ref, "HEAD">> \in DOMAIN r.rrefs THEN r.rrefs[<<ref, "HEAD">>]
    ELSE -1

\* git checkout <ref>: uncommitted changes and untracked files are carried over.
GitCheckout(x, ref, fault) ==
    LET r == x.repo
        can == ResolveRef(r, ref) # -1
        ok == can /\ ~fault
        h == [ref |-> IF ref \in DOMAIN r.branches THEN ref ELSE "",
              commit |-> ResolveRef(r, ref)]
    IN [repo |-> IF ok THEN [r EXCEPT !.head = h] ELSE r,
        log |-> Logged(x, "checkout", ref, can, fault),
        ok |-> ok]

\* git remote rm <name>: the remote and its remote-tracking refs go.
GitRemoteRm(x, name, fault) ==
    LET r == x.repo
        can == name \in DOMAIN r.remotes
        ok == can /\ ~fault
    IN [repo |-> IF ok
                 THEN [r EXCEPT !.remotes = Without(@, {name}),
                                !.rrefs = Without(@, {k \in DOMAIN @ : k[1] = name})]
                 ELSE r,
        log |-> Logged(x, "remote_rm", name, can, fault),
        ok |-> ok]

\* The loop of lines 55-56 left out: the tags stay.
KeepAllTags(x) ==
    [repo |-> x.repo, log |-> Logged(x, "delete_tags", "", TRUE, FALSE), ok |-> TRUE]

\* The loop of lines 55-56 left after its first round: one tag is deleted.
DeleteFirstTag(x) ==
    [repo |-> [x.repo EXCEPT !.tags = IF DOMAIN @ = {} THEN @
                                      ELSE Without(@, {CHOOSE t \in DOMAIN @ : TRUE})],
     log |-> Logged(x, "delete_tags", "", TRUE, FALSE),
     ok |-> TRUE]

\* for tag_ref in repo.tags: repo.delete_tag(tag_ref)
DeleteAllTags(x) ==
    [repo |-> [x.repo EXCEPT !.tags = NoRefs],
     log |-> Logged(x, "delete_tags", "", TRUE, FALSE),
     ok |-> TRUE]

\* repo.create_remote(name, url): git remote add, refused when the name is taken.
CreateRemote(x, name, url, fault) ==
    LET r == x.repo
        can == name \notin DOMAIN r.remotes
        ok == can /\ ~fault
    IN [repo |-> IF ok THEN [r EXCEPT !.remotes = (name :> url) @@ @] ELSE r,
        log |-> Logged(x, "create_remote", name, can, fault),
        ok |-> ok]

Url(team_repo_id) == "git@github.com:" \o team_repo_id \o ".git"

\* The branch the HEAD of a hosted repository names.
DefaultBranch(snap) == IF "main" \in DOMAIN snap.heads THEN "main" ELSE "dev"

\* git fetch <remote> --tags: every branch of the remote updates its
\* remote-tracking ref and every tag of the remote is stored; a git that
\* follows the remote's HEAD also creates <remote>/HEAD when it is missing.
\* git fetch <remote> main: the remote's main updates <remote>/main and the
\* tags that point into its history follow; refused when the remote has no main.
GitFetch(x, srv, name, what, fault) ==
    LET r == x.repo
        known == name \in DOMAIN r.remotes /\ r.remotes[name] \in DOMAIN srv
        snap == srv[r.remotes[name]]
        can == known /\ (what = "main" => "main" \in DOMAIN snap.heads)
        ok == can /\ ~fault
        heads == IF what = "--tags" THEN DOMAIN snap.heads ELSE {"main"}
        got == IF what = "--tags" THEN DOMAIN snap.tags
               ELSE {t \in DOMAIN snap.tags : Reachable(snap.tags[t], snap.heads["main"])}
        sym == IF what = "--tags" /\ r.followRemoteHEAD /\ <<name, "HEAD">> \notin DOMAIN r.rrefs
               THEN (<<name, "HEAD">> :> snap.heads[DefaultBranch(snap)])
               ELSE [k \in {} |-> 0]
    IN [repo |-> IF ok
                 THEN [r EXCEPT
                         !.rrefs = [k \in {<<name, b>> : b \in heads} |-> snap.heads[k[2]]]
                                   @@ sym @@ @,
                         !.tags = @ @@ [t \in got |-> snap.tags[t]]]
                 ELSE r,
        log |-> Logged(x, "fetch", name \o " " \o what, can, fault),
        ok |-> ok]

\* git branch -D <name>: refused for a missing branch and for the checked-out one.
GitBranchD(x, name, fault) ==
    LET r == x.repo
        can == name \in DOMAIN r.branches /\ r.head.ref # name
        ok == can /\ ~fault
    IN [repo |-> IF ok THEN [r EXCEPT !.branches = Without(@, {name})] ELSE r,
        log |-> Logged(x, "branch_D", name, can, fault),
        ok |-> ok]

\* git checkout -b <name> <start>: refused when the branch exists or the start
\* point does not resolve.
GitCheckoutB(x, name, start, fault) ==
    LET r == x.repo
        can == name \notin DOMAIN r.branches /\ ResolveRef(r, start) # -1
        ok == can /\ ~fault
    IN [repo |-> IF ok
                 THEN [r EXCEPT !.branches = (name :> ResolveRef(r, start)) @@ @,
                                !.head = [ref |-> name, commit |-> ResolveRef(r, start)]]
                 ELSE r,
        log |-> Logged(x, "checkout_b", name \o " " \o start, can, fault),
        ok |-> ok]

\* git checkout -- "*": the uncommitted changes of tracked files are discarded.
GitCheckoutPaths(x, fault) ==
    [repo |-> IF fault THEN x.repo ELSE [x.repo EXCEPT !.modified = {}],
     log |-> Logged(x, "discard", "*", TRUE, fault),
     ok |-> ~fault]

\* git clean -f -d: untracked files and directories are removed.
GitClean(x, fault) ==
    [repo |-> IF fault THEN x.repo ELSE [x.repo EXCEPT !.untracked = {}],
     log |-> Logged(x, "clean", "-f -d", TRUE, fault),
     ok |-> ~fault]

\* except git.GitError: pass
Swallow(x) == [x EXCEPT !.ok = TRUE]

(***************************************************************************)
(* checkout_to_team_branch.  F is the set of its git calls the environment *)
(* makes fail.  The result is the run with ret: "True", or "GitError" when *)
(* an exception leaves the function.                                       *)
(***************************************************************************)
SyncSteps ==
    {"checkout_base", "remote_rm", "create_remote", "fetch_tags", "fetch_main",
     "fetch_main_retry", "branch_D", "checkout_b", "checkout_b_fallback"}

Raise(x) == [repo |-> x.repo, log |-> x.log, ret |-> "GitError"]
Return(x, v) == [repo |-> x.repo, log |-> x.log, ret |-> v]

TeamBranch(team, branch) == team \o "-" \o branch

\* The fetches with the except clause of lines 63-64 re-raising.
SyncFetchNoRetry(x, srv, team, F) ==
    LET t == GitFetch(x, srv, team, "--tags", "fetch_tags" \in F)
    IN IF ~t.ok THEN t ELSE GitFetch(t, srv, team, "main", "fetch_main" \in F)

\* lines 60-64: the two fetches
SyncFetch(x, srv, team, F) ==
    LET t == GitFetch(x, srv, team, "--tags", "fetch_tags" \in F)
    IN IF ~t.ok THEN t
       ELSE LET m == GitFetch(t, srv, team, "main", "fetch_main" \in F)
            IN IF m.ok THEN m
               ELSE GitFetch(m, srv, team, "main", "fetch_main_retry" \in F)

\* The tracking branch with the GitError of its last creation swallowed.
SyncBranchSwallows(x, team, branch, F) ==
    LET team_branch == TeamBranch(team, branch)
        d == Swallow(GitBranchD(x, team_branch, "branch_D" \in F))
        c == GitCheckoutB(d, team_branch, team \o "/" \o branch, "checkout_b" \in F)
    IN IF branch = "main" /\ ~c.ok
       THEN Swallow(GitCheckoutB(c, team_branch, team \o "/main", "checkout_b_fallback" \in F))
       ELSE Swallow(c)

\* lines 66-80: the tracking branch
SyncBranch(x, team, branch, F) ==
    LET team_branch == TeamBranch(team, branch)
        d == Swallow(GitBranchD(x, team_branch, "branch_D" \in F))
        c == GitCheckoutB(d, team_branch, team \o "/" \o branch, "checkout_b" \in F)
    IN IF branch = "main" /\ ~c.ok
       THEN GitCheckoutB(c, team_branch, team \o "/main", "checkout_b_fallback" \in F)
       ELSE c

\* checkout_to_team_branch with the deletion of the old tracking branch
\* (lines 68-72) moved before the fetches.
SyncDeletesBranchFirst(x, srv, team_repo_id, team, branch, F) ==
    LET base == GitCheckout(x, branch, "checkout_base" \in F)
    IN IF ~base.ok THEN Raise(base)
       ELSE LET rm == Swallow(GitRemoteRm(base, team, "remote_rm" \in F))
                dt == DeleteAllTags(rm)
                cr == CreateRemote(dt, team, Url(team_repo_id), "create_remote" \in F)
                d == Swallow(GitBranchD(cr, TeamBranch(team, branch), "branch_D" \in F))
            IN IF ~cr.ok THEN Raise(cr)
               ELSE LET f == SyncFetch(d, srv, team, F)
                    IN IF ~f.ok THEN Raise(f)
                       ELSE LET b == SyncBranch(f, team, branch, F)
                            IN IF ~b.ok THEN Raise(b) ELSE Return(b, "True")

checkout_to_team_branch(x, srv, team_repo_id, team, branch, F) ==
    LET base == GitCheckout(x, branch, "checkout_base" \in F)
    IN IF ~base.ok THEN Raise(base)
       ELSE LET rm == Swallow(GitRemoteRm(base, team, "remote_rm" \in F))
                dt == DeleteAllTags(rm)
                cr == CreateRemote(dt, team, Url(team_repo_id), "create_remote" \in F)
            IN IF ~cr.ok THEN Raise(cr)
               ELSE LET f == SyncFetch(cr, srv, team, F)
                    IN IF ~f.ok THEN Raise(f)
                       ELSE LET b == SyncBranch(f, team, branch, F)
                            IN IF ~b.ok THEN Raise(b) ELSE Return(b, "True")

(***************************************************************************)
(* tag(tag_name) and branch(branch_name): the decorated tests.             *)
(***************************************************************************)
WrapSteps == {"current", "discard", "checkout", "clean"}

Entry(op) == [op |-> op, arg |-> "", ok |-> TRUE, env |-> FALSE]

\* git describe --always prints a tag that points at HEAD's commit when there
\* is one (the tags are annotated ones), and otherwise a string built from the
\* commit's abbreviated hash.
DescribeOutputs(r) ==
    LET here == {t \in DOMAIN r.tags : r.tags[t] = r.head.commit}
    IN IF here = {} THEN {"g" \o ToString(r.head.commit)} ELSE here

\* git rev-parse --abbrev-ref HEAD prints the branch, or HEAD when detached.
RevParseHead(r) == IF r.head.ref = "" THEN "HEAD" ELSE r.head.ref

\* Reading the current ref (line 96, line 127) changes nothing.
GitRead(x, op, fault) ==
    [repo |-> x.repo, log |-> Logged(x, op, "", TRUE, fault), ok |-> ~fault]

\* A step of a wrapper: the run, the closure's tag_name, and what follows:
\* "clean" (lines 119, 145), "shell" (os.system("bash")) or "raise".
Step(x, tn, next) == [run |-> x, tag_name |-> tn, next |-> next]

\* checkout_to_tag_then_test without the except clause of lines 109-113: the
\* GitError of the target checkout leaves the wrapper.
TagCheckoutRaises(x, tn, submitter, current_tag, F) ==
    LET d == GitRead(x, "describe", "current" \in F)
    IN IF ~d.ok THEN Step(d, tn, "raise")
       ELSE IF tn # current_tag
       THEN LET dis == GitCheckoutPaths(d, "discard" \in F)
                target == IF tn = "main" THEN submitter ELSE tn
                co == GitCheckout(dis, target, "checkout" \in F)
            IN IF ~dis.ok THEN Step(dis, tn, "raise")
               ELSE IF co.ok THEN Step(co, target, "clean")
               ELSE Step(co, target, "raise")
       ELSE Step(d, tn, "clean")

\* checkout_to_tag_then_test with the try of line 100 opened one line
\* earlier: a failing discard opens the shell too.
TagCheckoutTryFromDiscard(x, tn, submitter, current_tag, F) ==
    LET d == GitRead(x, "describe", "current" \in F)
    IN IF ~d.ok THEN Step(d, tn, "raise")
       ELSE IF tn # current_tag
       THEN LET dis == GitCheckoutPaths(d, "discard" \in F)
                target == IF tn = "main" THEN submitter ELSE tn
                co == GitCheckout(dis, target, "checkout" \in F)
            IN IF ~dis.ok THEN Step(dis, tn, "shell")
               ELSE IF co.ok THEN Step(co, target, "clean")
               ELSE Step(co, target, "shell")
       ELSE Step(d, tn, "clean")

\* lines 95-117 of checkout_to_tag_then_test; tn is the closure's tag_name.
TagCheckout(x, tn, submitter, current_tag, F) ==
    LET d == GitRead(x, "describe", "current" \in F)
    IN IF ~d.ok THEN Step(d, tn, "raise")
       ELSE IF tn # current_tag
       THEN LET dis == GitCheckoutPaths(d, "discard" \in F)
                target == IF tn = "main" THEN submitter ELSE tn
                co == GitCheckout(dis, target, "checkout" \in F)
            IN IF ~dis.ok THEN Step(dis, tn, "raise")
               ELSE IF co.ok THEN Step(co, target, "clean")
               ELSE Step(co, target, "shell")
       ELSE Step(d, tn, "clean")

\* to_branch with the special case of tag(): "main" names the submitter.
BranchCheckoutMainSpecial(x, bn, submitter, F) ==
    LET c == GitRead(x, "rev_parse", "current" \in F)
        current_branch == RevParseHead(x.repo)
        target_branch == IF bn = "main" THEN submitter ELSE TeamBranch(submitter, bn)
    IN IF ~c.ok THEN Step(c, bn, "raise")
       ELSE IF current_branch # target_branch
       THEN LET dis == GitCheckoutPaths(c, "discard" \in F)
                co == GitCheckout(dis, target_branch, "checkout" \in F)
            IN IF ~dis.ok THEN Step(dis, bn, "raise")
               ELSE IF co.ok THEN Step(co, bn, "clean")
               ELSE Step(co, bn, "shell")
       ELSE Step(c, bn, "clean")

\* lines 127-143 of to_branch
BranchCheckout(x, bn, submitter, F) ==
    LET c == GitRead(x, "rev_parse", "current" \in F)
        current_branch == RevParseHead(x.repo)
        target_branch == TeamBranch(submitter, bn)
    IN IF ~c.ok THEN Step(c, bn, "raise")
       ELSE IF current_branch # target_branch
       THEN LET dis == GitCheckoutPaths(c, "discard" \in F)
                co == GitCheckout(dis, target_branch, "checkout" \in F)
            IN IF ~dis.ok THEN Step(dis, bn, "raise")
               ELSE IF co.ok THEN Step(co, bn, "clean")
               ELSE Step(co, bn, "shell")
       ELSE Step(c, bn, "clean")

\* The test body run before the clean.
TestThenClean(x, fault) ==
    LET c == GitClean([x EXCEPT !.log = Append(@, Entry("body"))], fault)
    IN IF ~c.ok THEN Raise(c) ELSE Return(c, "TestResult")

\* lines 119-120, and line 145 followed by line 159: the untracked files are
\* cleaned and the test body runs.
CleanThenTest(x, fault) ==
    LET c == GitClean(x, fault)
    IN IF ~c.ok THEN Raise(c)
       ELSE Return([c EXCEPT !.log = Append(@, Entry("body"))], "TestResult")

(***************************************************************************)
(* apply_patch.  A patch file holds one commit made on top of a base       *)
(* commit; the commit it produces on base c is written 10 + c.             *)
(***************************************************************************)
Patches == {"p0.patch", "p1.patch", "none.patch"}
PatchBase == ("p0.patch" :> 0) @@ ("p1.patch" :> 1)
Applied(c) == 10 + c

\* git am <patch_path>: refused when the file is missing, when a session is
\* already in progress, when tracked files have uncommitted changes, and when
\* the patch does not apply to HEAD; a patch that stops half way leaves its
\* session in progress.
GitAm(x, patch_path, fault) ==
    LET r == x.repo
        exists == patch_path \in DOMAIN PatchBase
        starts == exists /\ ~r.applying /\ r.modified = {}
        can == starts /\ PatchBase[patch_path] = r.head.commit
        ok == can /\ ~fault
        c == Applied(r.head.commit)
    IN [repo |-> IF ok
                 THEN [r EXCEPT !.head.commit = c,
                                !.branches = IF r.head.ref = "" THEN @
                                             ELSE [@ EXCEPT ![r.head.ref] = c]]
                 ELSE IF starts THEN [r EXCEPT !.applying = TRUE]
                 ELSE r,
        log |-> Logged(x, "am", patch_path, can, fault),
        ok |-> ok]

\* apply_patch with the except clause of lines 169-171 left out: the GitError
\* of git am leaves the function.
ApplyPatchRaises(x, patch_path, fault) ==
    LET a == GitAm(x, patch_path, fault)
    IN IF ~a.ok THEN Raise(a) ELSE Return(a, "True")

\* lines 165-173
apply_patch(x, patch_path, fault) ==
    LET a == GitAm(x, patch_path, fault)
    IN IF ~a.ok
       THEN Return([a EXCEPT !.log = Append(@, Entry("print"))], "False")
       ELSE Return(a, "True")

(***************************************************************************)
(* check_late.  Strings are sequences of characters.                       *)
(***************************************************************************)
\* The deadline files: empty, the spec's examples, the night the clocks go
\* forward, an afternoon in summer, a midnight, and a line ended by a newline.
F_Empty ==
    <<>>
F_Jan1 ==
    <<"0", "1", "/", "0", "1", "/", "2", "4", " ", "1", "1", ":", "5", "9", " ", "P", "M">>
F_Dec5 ==
    <<"1", "2", "/", "0", "5", "/", "2", "3", " ", "1", "1", ":", "5", "9", " ", "P", "M">>
F_DstStart ==
    <<"0", "3", "/", "1", "0", "/", "2", "4", " ", "0", "1", ":", "5", "9", " ", "A", "M">>
F_Noon ==
    <<"0", "6", "/", "1", "5", "/", "2", "4", " ", "1", "2", ":", "3", "0", " ", "P", "M">>
F_Midnight ==
    <<"0", "1", "/", "3", "1", "/", "2", "4", " ", "1", "2", ":", "0", "0", " ", "A", "M">>
F_Newline ==
    <<"0", "1", "/", "0", "1", "/", "2", "4", " ", "1", "1", ":", "5", "9", " ", "P", "M", "\n">>
DeadlineFiles == {F_Empty, F_Jan1, F_Dec5, F_DstStart, F_Noon, F_Midnight, F_Newline}

\* The submission timestamps, as git log --format=%aI prints them; the last
\* one has no UTC offset.
S_OnTimeExample ==
    <<"2", "0", "2", "4", "-", "0", "1", "-", "0", "1", "T", "2", "3", ":", "5", "9", ":", "5", "9", "-", "0", "5", ":", "0", "0">>
S_LateExample ==
    <<"2", "0", "2", "4", "-", "0", "1", "-", "0", "2", "T", "0", "0", ":", "0", "0", ":", "3", "0", "-", "0", "5", ":", "0", "0">>
Timestamps ==
    { S_OnTimeExample, S_LateExample,
      <<"2", "0", "2", "4", "-", "0", "1", "-", "0", "2", "T", "0", "0", ":", "0", "0", ":", "0", "0", "-", "0", "5", ":", "0", "0">>,
      <<"2", "0", "2", "4", "-", "0", "1", "-", "0", "2", "T", "0", "4", ":", "5", "9", ":", "5", "9", "+", "0", "0", ":", "0", "0">>,
      <<"2", "0", "2", "4", "-", "0", "1", "-", "0", "2", "T", "0", "5", ":", "0", "0", ":", "0", "0", "+", "0", "0", ":", "0", "0">>,
      <<"2", "0", "2", "4", "-", "0", "1", "-", "0", "1", "T", "2", "3", ":", "5", "9", ":", "0", "0", "-", "0", "5", ":", "0", "0">>,
      <<"2", "0", "2", "4", "-", "0", "1", "-", "0", "2", "T", "1", "3", ":", "5", "9", ":", "5", "9", "+", "0", "9", ":", "0", "0">>,
      <<"2", "0", "2", "4", "-", "0", "1", "-", "0", "2", "T", "1", "4", ":", "0", "0", ":", "0", "0", "+", "0", "9", ":", "0", "0">>,
      <<"2", "0", "2", "3", "-", "1", "2", "-", "0", "5", "T", "2", "3", ":", "5", "9", ":", "5", "9", "-", "0", "5", ":", "0", "0">>,
      <<"2", "0", "2", "3", "-", "1", "2", "-", "0", "6", "T", "0", "0", ":", "0", "0", ":", "0", "0", "-", "0", "5", ":", "0", "0">>,
      <<"2", "0", "2", "4", "-", "0", "3", "-", "1", "0", "T", "0", "1", ":", "5", "9", ":", "5", "9", "-", "0", "5", ":", "0", "0">>,
      <<"2", "0", "2", "4", "-", "0", "3", "-", "1", "0", "T", "0", "3", ":", "0", "0", ":", "0", "0", "-", "0", "4", ":", "0", "0">>,
      <<"2", "0", "2", "4", "-", "0", "3", "-", "1", "0", "T", "0", "6", ":", "5", "9", ":", "5", "9", "+", "0", "0", ":", "0", "0">>,
      <<"2", "0", "2", "4", "-", "0", "6", "-", "1", "5", "T", "1", "2", ":", "3", "0", ":", "5", "9", "-", "0", "4", ":", "0", "0">>,
      <<"2", "0", "2", "4", "-", "0", "6", "-", "1", "5", "T", "1", "2", ":", "3", "1", ":", "0", "0", "-", "0", "4", ":", "0", "0">>,
      <<"2", "0", "2", "4", "-", "0", "6", "-", "1", "5", "T", "1", "1", ":", "3", "0", ":", "5", "9", "-", "0", "5", ":", "0", "0">>,
      <<"2", "0", "2", "4", "-", "0", "6", "-", "1", "5", "T", "1", "1", ":", "3", "1", ":", "0", "0", "-", "0", "5", ":", "0", "0">>,
      <<"2", "0", "2", "4", "-", "0", "1", "-", "3", "1", "T", "0", "0", ":", "0", "0", ":", "5", "9", "-", "0", "5", ":", "0", "0">>,
      <<"2", "0", "2", "4", "-", "0", "1", "-", "3", "1", "T", "0", "0", ":", "0", "1", ":", "0", "0", "-", "0", "5", ":", "0", "0">>,
      <<"2", "0", "2", "4", "-", "0", "1", "-", "3", "1", "T", "0", "5", ":", "0", "1", ":", "0", "0", "+", "0", "0", ":", "0", "0">>,
      <<"2", "0", "2", "4", "-", "0", "2", "-", "0", "1", "T", "2", "3", ":", "5", "9", ":", "5", "9", "-", "0", "5", ":", "0", "0">>,
      <<"2", "0", "2", "4", "-", "0", "3", "-", "0", "1", "T", "0", "0", ":", "0", "0", ":", "0", "0", "-", "0", "5", ":", "0", "0">>,
      <<"2", "0", "2", "4", "-", "0", "1", "-", "0", "1", "T", "2", "3", ":", "5", "9", ":", "5", "9">> }

DigitVal ==
    ("0" :> 0) @@ ("1" :> 1) @@ ("2" :> 2) @@ ("3" :> 3) @@ ("4" :> 4)
    @@ ("5" :> 5) @@ ("6" :> 6) @@ ("7" :> 7) @@ ("8" :> 8) @@ ("9" :> 9)

AreDigits(s, ps) == \A i \in ps : s[i] \in DOMAIN DigitVal
Num2(s, i) == 10 * DigitVal[s[i]] + DigitVal[s[i + 1]]

IsLeap(y) == ((y % 4) = 0 /\ (y % 100) # 0) \/ (y % 400) = 0
DaysInMonth(y, m) ==
    IF m = 2 THEN (IF IsLeap(y) THEN 29 ELSE 28)
    ELSE IF m \in {4, 6, 9, 11} THEN 30 ELSE 31

\* Days from 1970-01-01 to the civil date y-m-d.
DaysFromCivil(y, m, d) ==
    LET yy == IF m <= 2 THEN y - 1 ELSE y
        era == yy \div 400
        yoe == yy - era * 400
        doy == (153 * (IF m > 2 THEN m - 3 ELSE m + 9) + 2) \div 5 + d - 1
        doe == yoe * 365 + yoe \div 4 - yoe \div 100 + doy
    IN era * 146097 + doe - 719468

\* 0 is Sunday.
Weekday(y, m, d) == (DaysFromCivil(y, m, d) + 4) % 7

\* The instant of an aware datetime, in seconds since the epoch.
Instant(dt) ==
    DaysFromCivil(dt.year, dt.month, dt.day) * 86400
    + dt.hour * 3600 + dt.minute * 60 + dt.second - dt.utcoffset

\* datetime.fromisoformat on YYYY-MM-DDTHH:MM:SS, with or without +HH:MM.
fromisoformat(s) ==
    IF /\ Len(s) \in {19, 25}
       /\ AreDigits(s, {1, 2, 3, 4, 6, 7, 9, 10, 12, 13, 15, 16, 18, 19})
       /\ s[5] = "-" /\ s[8] = "-" /\ s[11] \in {"T", " "} /\ s[14] = ":" /\ s[17] = ":"
       /\ Len(s) = 25 =>
             /\ s[20] \in {"+", "-"} /\ s[23] = ":"
             /\ AreDigits(s, {21, 22, 24, 25})
       /\ Num2(s, 6) \in 1..12
       /\ Num2(s, 9) \in 1..DaysInMonth(100 * Num2(s, 1) + Num2(s, 3), Num2(s, 6))
       /\ Num2(s, 12) \in 0..23 /\ Num2(s, 15) \in 0..59 /\ Num2(s, 18) \in 0..59
    THEN [ok |-> TRUE,
          year |-> 100 * Num2(s, 1) + Num2(s, 3), month |-> Num2(s, 6), day |-> Num2(s, 9),
          hour |-> Num2(s, 12), minute |-> Num2(s, 15), second |-> Num2(s, 18),
          aware |-> Len(s) = 25,
          utcoffset |-> IF Len(s) = 25
                        THEN (IF s[20] = "-" THEN -1 ELSE 1)
                             * (Num2(s, 21) * 3600 + Num2(s, 24) * 60)
                        ELSE 0]
    ELSE [ok |-> FALSE]

\* d.readline(): the first line, with its newline when it has one.
RECURSIVE readline(_)
readline(f) ==
    IF f = <<>> THEN <<>>
    ELSE IF Head(f) = "\n" THEN <<"\n">>
    ELSE <<Head(f)>> \o readline(Tail(f))

\* datetime.strptime(s, "%m/%d/%y %I:%M %p") on two-digit fields: a naive
\* datetime with second 0; anything left over is a ValueError.
strptime(s) ==
    IF /\ Len(s) = 17
       /\ AreDigits(s, {1, 2, 4, 5, 7, 8, 10, 11, 13, 14})
       /\ s[3] = "/" /\ s[6] = "/" /\ s[9] = " " /\ s[12] = ":" /\ s[15] = " "
       /\ s[16] \in {"A", "P"} /\ s[17] = "M"
       /\ Num2(s, 1) \in 1..12
       /\ Num2(s, 4) \in 1..DaysInMonth(
              (IF Num2(s, 7) < 69 THEN 2000 ELSE 1900) + Num2(s, 7), Num2(s, 1))
       /\ Num2(s, 10) \in 1..12 /\ Num2(s, 13) \in 0..59
    THEN [ok |-> TRUE,
          year |-> (IF Num2(s, 7) < 69 THEN 2000 ELSE 1900) + Num2(s, 7),
          month |-> Num2(s, 1), day |-> Num2(s, 4),
          hour |-> (Num2(s, 10) % 12) + (IF s[16] = "P" THEN 12 ELSE 0),
          minute |-> Num2(s, 13), second |-> 0, aware |-> FALSE, utcoffset |-> 0]
    ELSE [ok |-> FALSE]

\* timezone("America/New_York").localize(dt), is_dst=False, for the years
\* since 2007: daylight time runs from 03:00 on the second Sunday of March to
\* 01:00 on the first Sunday of November; a wall time the clocks skip or
\* repeat is taken as standard time.
localize(dt) ==
    LET start == CHOOSE d \in 8..14 : Weekday(dt.year, 3, d) = 0
        stop == CHOOSE d \in 1..7 : Weekday(dt.year, 11, d) = 0
        wall == (dt.month * 100 + dt.day) * 100 + dt.hour
        edt == wall >= (300 + start) * 100 + 3 /\ wall < (1100 + stop) * 100 + 1
    IN [dt EXCEPT !.aware = TRUE, !.utcoffset = IF edt THEN -4 * 3600 ELSE -5 * 3600]

\* line 31 without replace(second=59).
DeadlineAtSecondZero(raw_deadline) == localize(raw_deadline)

\* line 31
Deadline(raw_deadline) == localize([raw_deadline EXCEPT !.second = 59])

\* line 33 with < for <=.
OnTimeStrict(submission, deadline) == Instant(submission) < Instant(deadline)

\* line 33
OnTime(submission, deadline) == Instant(submission) <= Instant(deadline)

\* line 25 left out.
NeverEmpty(deadline_string) == FALSE

\* line 25: not deadline_string
IsEmpty(deadline_string) == deadline_string = <<>>

\* dt plus n calendar months, the day clipped to the month's length
\* (relativedelta.__radd__).
AddMonths(dt, n) ==
    LET t == dt.year * 12 + (dt.month - 1) + n
        y == t \div 12
        m == (t % 12) + 1
    IN [dt EXCEPT !.year = y, !.month = m,
                  !.day = IF dt.day > DaysInMonth(y, m) THEN DaysInMonth(y, m) ELSE dt.day]

\* relativedelta(dt1, dt2) for dt1 later than dt2: whole months first, counted
\* down while they overshoot, then the rest split into days, hours, minutes
\* and seconds.
RECURSIVE WholeMonths(_, _, _)
WholeMonths(dt1, dt2, months) ==
    IF Instant(dt1) < Instant(AddMonths(dt2, months))
    THEN WholeMonths(dt1, dt2, months - 1)
    ELSE months

relativedelta(dt1, dt2) ==
    LET months == WholeMonths(dt1, dt2,
                      (dt1.year - dt2.year) * 12 + (dt1.month - dt2.month))
        delta == Instant(dt1) - Instant(AddMonths(dt2, months))
    IN [months |-> months,
        days |-> delta \div 86400,
        hours |-> (delta \div 3600) % 24,
        minutes |-> (delta \div 60) % 60,
        seconds |-> delta % 60]

NoDiff == [months |-> 0, days |-> 0, hours |-> 0, minutes |-> 0, seconds |-> 0]

\* The outcome of check_late: what it returns or raises, the notification it
\* prints, whether it parsed a deadline, and the lateness it computed.
Outcome(ret_, out, parsed, diff) == [ret |-> ret_, out |-> out, parsed |-> parsed, diff |-> diff]

check_late(deadline_file, iso_timestamp) ==
    LET submission == fromisoformat(iso_timestamp)
        deadline_string == readline(deadline_file)
        raw_deadline == strptime(deadline_string)
        deadline == Deadline(raw_deadline)
    IN IF ~submission.ok THEN Outcome("ValueError", "", FALSE, NoDiff)
       ELSE IF IsEmpty(deadline_string) THEN Outcome("False", "", FALSE, NoDiff)
       ELSE IF ~raw_deadline.ok THEN Outcome("ValueError", "", TRUE, NoDiff)
       ELSE IF ~submission.aware THEN Outcome("TypeError", "", TRUE, NoDiff)
       ELSE IF OnTime(submission, deadline)
       THEN Outcome("False", "[ SUBMISSION ON TIME ]", TRUE, NoDiff)
       ELSE Outcome("True", "[SUBMISSION LATE]", TRUE, relativedelta(submission, deadline))

(***************************************************************************)
(* The initial state: the skeleton repository, on its main branch, with    *)
(* a clean working tree, before any team has been synchronised.            *)
(***************************************************************************)
FreshRepo ==
    [branches |-> ("main" :> 0) @@ ("dev" :> 0),
     tags |-> NoRefs,
     remotes |-> [x \in {} |-> ""],
     rrefs |-> [x \in {} |-> 0],
     head |-> [ref |-> "main", commit |-> 0],
     modified |-> {},
     untracked |-> {},
     applying |-> FALSE,
     followRemoteHEAD |-> FALSE]

Urls == {Url(RepoIdOf[t]) : t \in Teams}

ServerInit == (Url(RepoIdOf["t1"]) :> Timeline[1]) @@ (Url(RepoIdOf["t2"]) :> Timeline[2])

\* The record of an invocation: the function, the team or submitter, the
\* branch argument or the decorated test, the local branches and the working
\* tree before it, and for a decorated test the ref it wants (name) and the
\* ref it read from the repository (current); for a sync, name is the url
\* and current the position of the hosted repository in its Timeline.
Tree(r) == [modified |-> r.modified, untracked |-> r.untracked]

Call(fn, who, arg, r, name, current) ==
    [fn |-> fn, who |-> who, arg |-> arg, before |-> r.branches, wt |-> Tree(r),
     name |-> name, current |-> current]

NoCall == Call("none", "", "", FreshRepo, "", "")

\* An invocation met an environment failure.
Faulted(l) == \E i \in 1..Len(l) : l[i].env

\* What is remembered of the invocation before the current one.
Past(c, r, l) == [fn |-> c.fn, who |-> c.who, arg |-> c.arg, ret |-> r, clean |-> ~Faulted(l)]

Start(r) == [repo |-> r, log |-> <<>>, ok |-> TRUE]

\* The environment makes no call fail, or one call, or a call and its
\* identical second attempt.
FaultSets(steps) ==
    {{}} \cup {{l} : l \in steps}
         \cup {{"fetch_main", "fetch_main_retry"}, {"checkout_b", "checkout_b_fallback"}}

InitGit ==
    /\ \E b \in BOOLEAN : repo = [FreshRepo EXCEPT !.followRemoteHEAD = b]
    /\ server = ServerInit
    /\ tag_name = [k \in TagArgs |-> k]
    /\ branch_name = [k \in BranchArgs |-> k]
    /\ pc = "idle"
    /\ cur = NoCall
    /\ log = <<>>
    /\ ret = "none"
    /\ seen = Tree(FreshRepo)
    /\ prev = Past(NoCall, "none", <<>>)
    /\ calls = 0

NoLate == [pc |-> "off", file |-> <<>>, stamp |-> <<>>, res |-> Outcome("", "", FALSE, NoDiff)]

Init == InitGit /\ late = NoLate

\* The harness synchronises a team: one call of checkout_to_team_branch.
Sync(team, branch, F) ==
    /\ pc = "idle"
    /\ calls < MaxCalls
    /\ LET res == checkout_to_team_branch(Start(repo), server, RepoIdOf[team], team, branch, F)
       IN /\ repo' = res.repo
          /\ log' = res.log
          /\ ret' = res.ret
    /\ cur' = Call("sync", team, branch, repo, Url(RepoIdOf[team]),
                   ToString(CHOOSE i \in 1..Len(Timeline) : Timeline[i] = server[Url(RepoIdOf[team])]))
    /\ prev' = Past(cur, ret, log)
    /\ calls' = calls + 1
    /\ UNCHANGED <<server, tag_name, branch_name, pc, seen, late>>

\* A team pushes to its hosted repository.
ServerPush(u) ==
    /\ pc = "idle"
    /\ calls < MaxCalls
    /\ \E i \in 1..(Len(Timeline) - 1) :
          /\ server[u] = Timeline[i]
          /\ server' = [server EXCEPT ![u] = Timeline[i + 1]]
    /\ calls' = calls + 1
    /\ UNCHANGED <<repo, tag_name, branch_name, pc, cur, log, ret, seen, prev, late>>

\* Somebody tags the checked-out commit in the local repository.
LocalTags == {"ta", "hw2"}

GraderTag(t) ==
    /\ pc = "idle"
    /\ calls < MaxCalls
    /\ t \notin DOMAIN repo.tags
    /\ repo' = [repo EXCEPT !.tags = (t :> repo.head.commit) @@ @]
    /\ calls' = calls + 1
    /\ UNCHANGED <<server, tag_name, branch_name, pc, cur, log, ret, seen, prev, late>>

NextTags ==
    \/ \E team \in Teams, branch \in BranchArgs : Sync(team, branch, {})
    \/ \E u \in Urls : ServerPush(u)
    \/ \E t \in LocalTags : GraderTag(t)

SpecTags == Init /\ [][NextTags]_vars

NextSync ==
    \/ \E team \in Teams, branch \in BranchArgs, F \in FaultSets(SyncSteps) :
          Sync(team, branch, F)
    \/ \E u \in Urls : ServerPush(u)

SpecSync == Init /\ [][NextSync]_vars

\* The end of a wrapper's invocation; a body that ran saw the tree left by
\* the clean.
Finish(res) ==
    /\ repo' = res.repo
    /\ log' = res.log
    /\ ret' = res.ret
    /\ pc' = "idle"
    /\ seen' = IF res.ret = "TestResult" THEN Tree(res.repo) ELSE seen

\* What follows the checkout part of a wrapper, in the same invocation: the
\* exception leaves, or the shell opens and blocks, or the clean and the body run.
Continue(st, F) ==
    IF st.next = "raise"
    THEN /\ repo' = st.run.repo /\ log' = st.run.log /\ ret' = "GitError" /\ pc' = "idle"
         /\ seen' = seen
    ELSE IF st.next = "shell"
    THEN /\ repo' = st.run.repo
         /\ log' = Append(st.run.log, Entry("shell"))
         /\ ret' = "blocked"
         /\ pc' = "shell"
         /\ seen' = seen
    ELSE Finish(CleanThenTest(st.run, "clean" \in F))

\* The harness runs the test decorated with tag(k) on a submission.
TagInvoke(k, submitter, F) ==
    /\ pc = "idle"
    /\ calls < MaxCalls
    /\ \E current_tag \in DescribeOutputs(repo) :
          LET st == TagCheckout(Start(repo), tag_name[k], submitter, current_tag, F)
          IN /\ Continue(st, F)
             /\ tag_name' = [tag_name EXCEPT ![k] = st.tag_name]
             /\ cur' = Call("tag", submitter, k, repo, tag_name[k], current_tag)
    /\ prev' = Past(cur, ret, log)
    /\ calls' = calls + 1
    /\ UNCHANGED <<server, branch_name, late>>

\* The harness runs the test decorated with branch(k) on a submission.
BranchInvoke(k, submitter, F) ==
    /\ pc = "idle"
    /\ calls < MaxCalls
    /\ LET st == BranchCheckout(Start(repo), branch_name[k], submitter, F)
       IN /\ Continue(st, F)
          /\ branch_name' = [branch_name EXCEPT ![k] = st.tag_name]
    /\ cur' = Call("branch", submitter, k, repo,
                   TeamBranch(submitter, branch_name[k]), RevParseHead(repo))
    /\ prev' = Past(cur, ret, log)
    /\ calls' = calls + 1
    /\ UNCHANGED <<server, tag_name, late>>

\* The exit of the shell followed by a second checkout of the target ref.
ShellExitRetries(fault) ==
    /\ pc = "shell"
    /\ LET again == GitCheckout([repo |-> repo, log |-> log, ok |-> TRUE],
                                log[Len(log) - 1].arg, FALSE)
       IN Finish(CleanThenTest(again, fault))
    /\ UNCHANGED <<server, tag_name, branch_name, cur, prev, calls, late>>

\* A shell the operator's exit does not end.
ShellStays(fault) ==
    /\ pc = "shell"
    /\ UNCHANGED vars

\* The operator leaves the shell: os.system returns and the wrapper goes on.
ShellExit(fault) ==
    /\ pc = "shell"
    /\ Finish(CleanThenTest([repo |-> repo, log |-> log, ok |-> TRUE], fault))
    /\ UNCHANGED <<server, tag_name, branch_name, cur, prev, calls, late>>

\* In the shell the operator puts HEAD on the ref the wrapper wanted: by a
\* checkout when the ref exists, else by creating the branch where HEAD is.
OperatorFix ==
    /\ pc = "shell"
    /\ LET want == log[Len(log) - 1].arg
       IN /\ RevParseHead(repo) # want
          /\ repo' = IF ResolveRef(repo, want) # -1
                     THEN GitCheckout(Start(repo), want, FALSE).repo
                     ELSE GitCheckoutB(Start(repo), want, "HEAD", FALSE).repo
    /\ UNCHANGED <<server, tag_name, branch_name, pc, cur, log, ret, seen, prev, calls, late>>

\* The grader changes a tracked file or adds a file between two tests.
GraderEdit(f) ==
    /\ pc = "idle"
    /\ calls < MaxCalls
    /\ \/ f \in Files \ repo.modified /\ repo' = [repo EXCEPT !.modified = @ \cup {f}]
       \/ f \in NewFiles \ repo.untracked /\ repo' = [repo EXCEPT !.untracked = @ \cup {f}]
    /\ calls' = calls + 1
    /\ UNCHANGED <<server, tag_name, branch_name, pc, cur, log, ret, seen, prev, late>>

WrapFaultSets == {{}} \cup {{l} : l \in WrapSteps}

Next ==
    \/ \E team \in Teams, branch \in BranchArgs : Sync(team, branch, {})
    \/ \E k \in TagArgs, s \in Teams, F \in WrapFaultSets : TagInvoke(k, s, F)
    \/ \E k \in BranchArgs, s \in Teams, F \in WrapFaultSets : BranchInvoke(k, s, F)
    \/ \E fault \in BOOLEAN : ShellExit(fault)
    \/ OperatorFix
    \/ \E f \in Files \cup NewFiles : GraderEdit(f)

Spec == Init /\ [][Next]_vars

\* The harness applies a patch file to the repository.
ApplyPatch(patch_path, fault) ==
    /\ pc = "idle"
    /\ calls < MaxCalls
    /\ LET res == apply_patch(Start(repo), patch_path, fault)
       IN /\ repo' = res.repo
          /\ log' = res.log
          /\ ret' = res.ret
    /\ cur' = Call("patch", "", patch_path, repo, "", "")
    /\ prev' = Past(cur, ret, log)
    /\ calls' = calls + 1
    /\ UNCHANGED <<server, tag_name, branch_name, pc, seen, late>>

NextPatch ==
    \/ \E team \in Teams, branch \in BranchArgs : Sync(team, branch, {})
    \/ \E p \in Patches, fault \in BOOLEAN : ApplyPatch(p, fault)
    \/ \E f \in Files \cup NewFiles : GraderEdit(f)

SpecPatch == Init /\ [][NextPatch]_vars

\* The operator does not stay in an open shell for ever: os.system("bash")
\* returns once they exit, and nothing else is scheduled meanwhile.
SpecFair == Spec /\ WF_vars(\E fault \in BOOLEAN : ShellExit(fault))

\* The harness is about to call check_late on a deadline file and a timestamp.
InitLate ==
    /\ InitGit
    /\ \E f \in DeadlineFiles, t \in Timestamps :
          late = [pc |-> "call", file |-> f, stamp |-> t, res |-> Outcome("", "", FALSE, NoDiff)]

CheckLate ==
    /\ late.pc = "call"
    /\ late' = [late EXCEPT !.pc = "done", !.res = check_late(late.file, late.stamp)]
    /\ UNCHANGED <<repo, server, tag_name, branch_name, pc, cur, log, ret, seen, prev, calls>>

NextLate == CheckLate

SpecLate == InitLate /\ [][NextLate]_vars


(***************************************************************************)
(* Properties.                                                             *)
(***************************************************************************)
At(op) == {i \in 1..Len(log) : log[i].op = op}
Wrapped == cur.fn \in {"tag", "branch"}
MATCHED == cur.name = cur.current
ReadOk == \E i \in At("describe") \cup At("rev_parse") : log[i].ok

\* C1: every invocation of a test decorated with tag("main") passes the
\* submitter of that invocation's hw_instance to the target checkout, never
\* "main" and never the submitter of an earlier invocation.
C1_TagMainChecksOutSubmitter ==
    (cur.fn = "tag" /\ cur.arg = "main") =>
        \A i \in At("checkout") : log[i].arg = cur.who

\* C2: in tag mode, a second invocation in a row with the same tag that finds
\* the repository at that tag (MATCHED) performs no checkout, no discard of
\* tracked files and no clean of untracked files before the test body.
C2_MatchedDoesNoCheckoutNoClean ==
    (/\ cur.fn = "tag" /\ prev.fn = "tag"
     /\ prev.arg = cur.arg /\ prev.who = cur.who
     /\ MATCHED /\ ReadOk) =>
        At("checkout") \cup At("discard") \cup At("clean") = {}

\* C4: at the start of the test body, after a checkout transition the working
\* tree has no modified tracked file and no untracked file; in state MATCHED
\* every file the grader changed before the invocation is still there.
C4_TreeAtBodyStart ==
    (Wrapped /\ ret = "TestResult") =>
        /\ (\E i \in At("checkout") : log[i].ok) =>
               seen.modified = {} /\ seen.untracked = {}
        /\ MATCHED =>
               cur.wt.modified \subseteq seen.modified
               /\ cur.wt.untracked \subseteq seen.untracked

\* C6: in branch mode the ref compared with the current branch and passed to
\* the checkout is submitter-branch_name for every branch name, "main"
\* included, and no invocation changes the decorator's branch_name.
C6_BranchTargetIsSubmitterDashBranch ==
    /\ \A k \in BranchArgs : branch_name[k] = k
    /\ (cur.fn = "branch" /\ ReadOk) =>
          /\ \A i \in At("checkout") : log[i].arg = cur.who \o "-" \o cur.arg
          /\ (At("checkout") \cup At("discard") # {}) <=>
                 (cur.current # cur.who \o "-" \o cur.arg)

C6_Witness ==
    /\ cur.fn = "branch" /\ cur.arg = "main" /\ ret = "TestResult"
    /\ \E i \in At("checkout") : log[i].ok /\ log[i].arg = "t2-main"

\* The hosted repository as the current sync call found it.
Fetched == Timeline[CHOOSE i \in 1..Len(Timeline) : ToString(i) = cur.current]

\* C3: a second call of checkout_to_team_branch in succession, with the same
\* team, team_repo_id and branch_name and no git operation made to fail,
\* returns True and leaves exactly one remote named team, exactly one local
\* branch team-branch_name, and the tags the second call fetched.
C3_SecondSyncIsIdempotent ==
    (/\ cur.fn = "sync" /\ prev.fn = "sync"
     /\ prev.who = cur.who /\ prev.arg = cur.arg /\ prev.ret = "True"
     /\ ~Faulted(log)
     /\ {"main", cur.arg} \subseteq DOMAIN Fetched.heads) =>
        /\ ret = "True"
        /\ Cardinality({r \in DOMAIN repo.remotes : r = cur.who}) = 1
        /\ repo.remotes[cur.who] = cur.name
        /\ Cardinality({b \in DOMAIN repo.branches : b = cur.who \o "-" \o cur.arg}) = 1
        /\ repo.tags = Fetched.tags

C3_Witness ==
    /\ cur.fn = "sync" /\ prev.fn = "sync"
    /\ prev.who = cur.who /\ prev.arg = cur.arg /\ prev.ret = "True"
    /\ ~Faulted(log) /\ ret = "True"
    /\ cur.who = "t2" /\ "hw1" \notin DOMAIN repo.tags

\* C5: when the checkout of the target ref fails, the shell is opened exactly
\* once, right after it; no clean and no test body starts before the operator
\* exits the shell; after the exit nothing is read or checked out again, the
\* clean runs and, unless the clean itself raises, the body runs exactly once
\* wherever HEAD is, and the error of the checkout never reaches the caller.
C5_FailedCheckoutOpensShellThenRunsBody ==
    Wrapped =>
        \A i \in At("checkout") : ~log[i].ok =>
            /\ At("shell") = {i + 1}
            /\ At("checkout") = {i}
            /\ \A j \in At("clean") \cup At("body") : j > i + 1
            /\ pc = "shell" => Len(log) = i + 1 /\ ret = "blocked"
            /\ pc = "idle" =>
                  /\ At("clean") = {i + 2}
                  /\ log[i + 2].ok => At("body") = {i + 3} /\ Len(log) = i + 3 /\ ret = "TestResult"
                  /\ ~log[i + 2].ok => At("body") = {} /\ Len(log) = i + 2 /\ ret = "GitError"

C5_Witness ==
    /\ Wrapped /\ pc = "idle" /\ ret = "TestResult"
    /\ \E i \in At("checkout") : ~log[i].ok /\ ResolveRef(repo, log[i].arg) = -1

LateDone == late.pc = "done"
Submitted == fromisoformat(late.stamp)
Stated == strptime(readline(late.file))
\* The stated minute with seconds set to 59, in America/New_York.
D == Instant(localize([Stated EXCEPT !.second = 59]))
Breakdown == <<late.res.diff.days, late.res.diff.hours, late.res.diff.minutes, late.res.diff.seconds>>

\* C7: with D the deadline instant of the file, check_late returns False for
\* every timezone-aware timestamp t <= D, t = D included, and True for
\* t = D + 1 second, with a breakdown (days, hours, minutes, seconds) that is
\* not all zero.
C7_OnTimeUpToDeadlineLateAfter ==
    (LateDone /\ Submitted.ok /\ Submitted.aware /\ Stated.ok) =>
        /\ Instant(Submitted) <= D => late.res.ret = "False"
        /\ Instant(Submitted) = D + 1 =>
              late.res.ret = "True" /\ Breakdown # <<0, 0, 0, 0>>

C7_Witness ==
    /\ LateDone /\ Submitted.ok /\ Submitted.aware /\ Stated.ok
    /\ Instant(Submitted) = D + 1
    /\ Submitted.utcoffset = 9 * 3600
    /\ late.res.ret = "True"

\* C8 as claimed: with the deadline 01/01/24 11:59 PM, a submission at
\* 2024-01-01T23:59:59-05:00 is on time and one at 2024-01-02T00:00:30-05:00
\* is late by 0 days, 0 hrs, 1 min, 31 secs.
C8_ExampleAsClaimed ==
    (LateDone /\ late.file = F_Jan1) =>
        /\ late.stamp = S_OnTimeExample => late.res.ret = "False"
        /\ late.stamp = S_LateExample =>
              late.res.ret = "True" /\ Breakdown = <<0, 0, 1, 31>>

\* C8 as amended: the late submission is late by 0 days, 0 hrs, 0 mins,
\* 31 secs.
C8_ExampleThirtyOneSeconds ==
    (LateDone /\ late.file = F_Jan1) =>
        /\ late.stamp = S_OnTimeExample => late.res.ret = "False"
        /\ late.stamp = S_LateExample =>
              late.res.ret = "True" /\ Breakdown = <<0, 0, 0, 31>>

C8_Witness ==
    /\ LateDone /\ late.file = F_Jan1 /\ late.stamp = S_LateExample
    /\ late.res.ret = "True"

\* C9: on an empty deadline file check_late returns False for any submission
\* timestamp, aware or not, without parsing a deadline and without printing
\* an on-time or late notification.
C9_EmptyDeadlineFileIsNeverLate ==
    (LateDone /\ late.file = <<>> /\ Submitted.ok) =>
        late.res.ret = "False" /\ ~late.res.parsed /\ late.res.out = ""

C9_Witness ==
    /\ LateDone /\ late.file = <<>> /\ Submitted.ok /\ ~Submitted.aware
    /\ late.res.ret = "False"

\* C10 as claimed: a failing fetch, of the tags or of main, is retried exactly
\* once with an identical call; a retry that succeeds lets the sync go on to
\* the branch, a retry that fails propagates and no deletion or creation of the
\* tracking branch is attempted.
C10_EveryFetchRetriedOnce ==
    cur.fn = "sync" =>
        \A what \in {"--tags", "main"} :
            LET fs == {i \in At("fetch") : log[i].arg = cur.who \o " " \o what}
            IN (\E i \in fs : ~log[i].ok) =>
                  \E i \in fs :
                     /\ fs = {i, i + 1} /\ ~log[i].ok
                     /\ log[i + 1].ok => At("branch_D") # {}
                     /\ ~log[i + 1].ok =>
                           ret = "GitError" /\ At("branch_D") \cup At("checkout_b") = {}

\* C10 as amended: only the fetch of main is retried; a failing fetch of the
\* tags propagates at once.
C10_OnlyMainFetchRetriedOnce ==
    cur.fn = "sync" =>
        LET ft == {i \in At("fetch") : log[i].arg = cur.who \o " --tags"}
            fm == {i \in At("fetch") : log[i].arg = cur.who \o " main"}
        IN /\ Cardinality(ft) <= 1
           /\ \A i \in ft : ~log[i].ok =>
                 /\ ret = "GitError" /\ Len(log) = i
           /\ (\E i \in fm : ~log[i].ok) =>
                 \E i \in fm :
                    /\ fm = {i, i + 1} /\ ~log[i].ok
                    /\ log[i + 1].ok => At("branch_D") = {i + 2}
                    /\ ~log[i + 1].ok => ret = "GitError" /\ Len(log) = i + 1
           /\ (\A i \in fm : log[i].ok) => Cardinality(fm) <= 1
           /\ ret = "True" => \E i \in fm : log[i].ok

C10_Witness ==
    /\ cur.fn = "sync" /\ ret = "True"
    /\ \E i \in At("fetch") : ~log[i].ok /\ log[i + 1].op = "fetch" /\ log[i + 1].ok

\* C11: apply_patch returns True when git am succeeds; when git am fails with
\* a GitError it returns False after printing the error, no exception reaches
\* the caller and the shell is not opened.
C11_ApplyPatchReturnsBoolean ==
    cur.fn = "patch" =>
        /\ At("am") = {1}
        /\ log[1].ok => ret = "True" /\ Len(log) = 1
        /\ ~log[1].ok => ret = "False" /\ log = <<log[1], Entry("print")>>
        /\ ret # "GitError" /\ At("shell") = {} /\ pc = "idle"

C11_Witness ==
    /\ cur.fn = "patch" /\ ret = "False" /\ ~log[1].ok /\ ~log[1].env
    /\ prev.fn = "patch" /\ prev.ret = "True"

\* C12: in tag mode and branch mode the shell is opened if and only if the
\* checkout of the target ref fails: never in state MATCHED, never after a
\* target checkout that succeeded; a failure of reading the current ref, of
\* the discard of tracked changes or of the clean opens no shell and leaves
\* the wrapper as a GitError.
C12_ShellIffTargetCheckoutFails ==
    Wrapped =>
        /\ (At("shell") # {}) <=> (\E i \in At("checkout") : ~log[i].ok)
        /\ (MATCHED /\ ReadOk) => At("shell") = {} /\ At("checkout") = {}
        /\ \A i \in At("checkout") : log[i].ok => At("shell") = {}
        /\ \A i \in At("describe") \cup At("rev_parse") \cup At("discard") \cup At("clean") :
              ~log[i].ok => /\ Len(log) = i /\ ret = "GitError" /\ pc = "idle"
                            /\ \A j \in At("shell") : j < i /\ ~log[j - 1].ok
                                                       /\ log[j - 1].op = "checkout"

C12_Witness ==
    /\ cur.fn = "tag" /\ ~MATCHED /\ ret = "GitError" /\ pc = "idle"
    /\ \E i \in At("discard") : ~log[i].ok
    /\ At("shell") = {}

\* C13 as claimed: when the checkout of the target ref failed and the shell
\* was opened, the checkout of the target ref is attempted again after the
\* operator exits the shell and before the test body runs.
C13_RetriesCheckoutAfterShell ==
    Wrapped =>
        \A i \in At("shell") : \A b \in At("body") :
            \E j \in At("checkout") : i < j /\ j < b

\* C13 as amended: when the operator exits the shell the wrapper attempts no
\* further checkout: HEAD and the branches stay as the operator left them, the
\* only calls that follow are the clean and, when the clean succeeds, the
\* test body.
C13_NoRetryAfterShell ==
    [][(pc = "shell" /\ pc' = "idle") =>
          /\ repo'.head = repo.head
          /\ repo'.branches = repo.branches
          /\ \/ log' = log \o <<[op |-> "clean", arg |-> "-f -d", ok |-> TRUE, env |-> FALSE],
                                  Entry("body")>>
                /\ ret' = "TestResult"
             \/ log' = log \o <<[op |-> "clean", arg |-> "-f -d", ok |-> FALSE, env |-> TRUE]>>
                /\ ret' = "GitError"]_vars

\* The body ran away from the target ref although the ref exists: a second
\* checkout would have reached it.
C13_Witness ==
    /\ Wrapped /\ pc = "idle" /\ ret = "TestResult"
    /\ \E i \in At("shell") :
          /\ log[i - 1].op = "checkout" /\ log[i - 1].env
          /\ ResolveRef(repo, log[i - 1].arg) # -1
          /\ repo.head.commit # ResolveRef(repo, log[i - 1].arg)

\* C14: after checkout_to_team_branch returned True for team S and branch
\* "main", the test decorated with tag("main") run with submitter S checks
\* out the tracking branch the sync created, S-main, and the checkout
\* succeeds without the shell.
C14_TagMainTargetsSyncedBranch ==
    (/\ cur.fn = "tag" /\ cur.arg = "main" /\ cur.name = "main"
     /\ prev.fn = "sync" /\ prev.who = cur.who /\ prev.arg = "main" /\ prev.ret = "True"
     /\ ~Faulted(log)) =>
        /\ At("checkout") # {}
        /\ \A i \in At("checkout") : log[i].arg = TeamBranch(cur.who, "main") /\ log[i].ok
        /\ At("shell") = {}

\* C15: every call of checkout_to_team_branch that returns True, whatever
\* teams were synchronised before and whatever tags were created locally,
\* leaves exactly the tags of the remote it fetched: the tags are deleted
\* before the first fetch and no tag from before the call survives unless
\* the remote has it, with the remote's commit.
C15_TagsAreThoseOfLastSyncedRemote ==
    [][(/\ <<cur, log, ret, prev>>' # <<cur, log, ret, prev>>
        /\ cur'.fn = "sync" /\ ret' = "True") =>
          /\ repo'.tags = server[cur'.name].tags
          /\ \A t \in DOMAIN repo.tags \ DOMAIN server[cur'.name].tags :
                t \notin DOMAIN repo'.tags
          /\ \E d \in 1..Len(log') :
                /\ log'[d].op = "delete_tags"
                /\ \A i \in 1..Len(log') : log'[i].op = "fetch" => d < i]_vars

\* A sync of t1 that follows a sync of t2: the tag only t2 has is gone.
C15_Witness ==
    /\ cur.fn = "sync" /\ ret = "True" /\ cur.who = "t1"
    /\ prev.fn = "sync" /\ prev.ret = "True" /\ prev.who = "t2"
    /\ repo.tags = Fetched.tags /\ "hw2" \notin DOMAIN repo.tags

Ops == [i \in 1..Len(log) |-> log[i].op]

\* C16: in state MISMATCHED the calls of one invocation are, in this order
\* and each at most once: the discard of tracked changes, the checkout of the
\* target ref, the shell (only after a failed checkout), the clean, the test
\* body; and on every path, MATCHED included, a body that runs comes right
\* after a clean that succeeded.
C16_StepsInOrderEachOnce ==
    Wrapped =>
        /\ (~MATCHED /\ ReadOk) =>
              /\ \A op \in {"discard", "checkout", "shell", "clean", "body"} :
                    Cardinality(At(op)) <= 1
              /\ \A i \in At("discard") : \A j \in At("checkout") : i < j
              /\ \A i \in At("checkout") : \A j \in At("shell") : i < j /\ ~log[i].ok
              /\ \A i \in At("checkout") \cup At("shell") : \A j \in At("clean") : i < j
              /\ \A i \in At("clean") : \A j \in At("body") : i < j
              /\ At("clean") # {} => At("discard") # {} /\ At("checkout") # {}
              /\ At("checkout") # {} => At("discard") # {}
        /\ \A b \in At("body") :
              /\ b = Len(log) /\ b > 1
              /\ log[b - 1].op = "clean" /\ log[b - 1].ok

C16_Witness ==
    /\ cur.fn = "branch" /\ ~MATCHED
    /\ Ops = <<"rev_parse", "discard", "checkout", "shell", "clean", "body">>

\* C17: an invocation of a decorated test that is not blocked in the shell
\* has run the test body or raised to the caller; with an operator who
\* eventually exits the shell, a blocked invocation eventually does one of
\* the two; and while the shell is open nothing but the operator's exit makes
\* the invocation progress.
C17_InvocationEndsOnceOperatorExits ==
    /\ [](Wrapped =>
            /\ pc = "idle" => \/ (ret = "TestResult" /\ At("body") # {})
                             \/ (ret = "GitError" /\ At("body") = {})
            /\ pc = "shell" => (ret = "blocked" /\ At("body") = {}))
    /\ (pc = "shell") ~> (pc = "idle" /\ ret \in {"TestResult", "GitError"})
    /\ [][pc = "shell" =>
            \/ (pc' = "shell" /\ UNCHANGED <<cur, log, ret, seen, prev, calls>>)
            \/ /\ pc' = "idle" /\ UNCHANGED <<cur, prev, calls>>
               /\ Len(log') > Len(log)
               /\ SubSeq(log', 1, Len(log)) = log
               /\ log'[Len(log) + 1].op = "clean"]_vars

\* The error of the clean that followed the shell reached the caller.
C17_Witness ==
    /\ Wrapped /\ pc = "idle" /\ ret = "GitError"
    /\ At("shell") # {} /\ At("body") = {}

Last(S) == CHOOSE i \in S : \A j \in S : j <= i
Created == {i \in At("checkout_b") :
              log[i].arg = TeamBranch(cur.who, cur.arg) \o " " \o cur.who \o "/" \o cur.arg}

\* What a True return of checkout_to_team_branch guarantees, apart from the
\* failures of the branch creation: HEAD is on team-branch_name, which this
\* call created, after its fetches, at team/branch_name as fetched; the
\* remote team has the url of team_repo_id; the base checkout, the remote
\* registration, the fetch of the tags and the last fetch of main succeeded.
TrueReturn ==
    /\ repo.head.ref = TeamBranch(cur.who, cur.arg)
    /\ repo.head.commit = repo.branches[TeamBranch(cur.who, cur.arg)]
    /\ repo.branches[TeamBranch(cur.who, cur.arg)] = repo.rrefs[<<cur.who, cur.arg>>]
    /\ repo.rrefs[<<cur.who, cur.arg>>] = Fetched.heads[cur.arg]
    /\ \E i \in Created : log[i].ok /\ i = Len(log) /\ \A j \in At("fetch") : j < i
    /\ cur.who \in DOMAIN repo.remotes
    /\ repo.remotes[cur.who] = "git@github.com:" \o RepoIdOf[cur.who] \o ".git"
    /\ log[1].op = "checkout" /\ log[1].arg = cur.arg /\ log[1].ok
    /\ \E i \in At("create_remote") : log[i].ok
    /\ \A i \in At("create_remote") : log[i].ok
    /\ \A i \in At("fetch") : log[i].arg = cur.who \o " --tags" => log[i].ok
    /\ log[Last(At("fetch"))].arg = cur.who \o " main" /\ log[Last(At("fetch"))].ok

\* C18 as claimed: a True return has the guarantees above, and no creation
\* of the tracking branch failed in a call that returned True.
C18_TrueReturnNoFailedCreation ==
    (cur.fn = "sync" /\ ret = "True") =>
        /\ TrueReturn
        /\ \A i \in At("checkout_b") : log[i].ok

\* C18 as amended: a True return has the guarantees above, and the last
\* creation of the tracking branch succeeded; for branch_name "main" a first
\* creation that failed was repeated once, with the same start point.
C18_TrueReturnLastCreationSucceeded ==
    (cur.fn = "sync" /\ ret = "True") =>
        /\ TrueReturn
        /\ log[Last(At("checkout_b"))].ok
        /\ At("checkout_b") = Created
        /\ Cardinality(At("checkout_b")) <= (IF cur.arg = "main" THEN 2 ELSE 1)
        /\ \A i \in At("checkout_b") : ~log[i].ok => At("checkout_b") = {i, i + 1}

C18_Witness ==
    /\ cur.fn = "sync" /\ ret = "True" /\ cur.arg = "main"
    /\ \E i \in At("checkout_b") : ~log[i].ok /\ log[i + 1].op = "checkout_b" /\ log[i + 1].ok

\* C19: when checkout_to_team_branch raises because a fetch failed, the local
\* branches are those from before the call, with the same commits (an older
\* tracking branch team-branch_name included: no deletion and no creation
\* was attempted); the tags from before the call are gone (what tags there
\* are came from this call's fetch of the tags); the remote team is
\* registered anew; HEAD is on the base branch branch_name.
C19_FailedFetchKeepsBranches ==
    (cur.fn = "sync" /\ ret = "GitError" /\ Len(log) > 0 /\ log[Len(log)].op = "fetch") =>
        /\ repo.branches = cur.before
        /\ At("branch_D") \cup At("checkout_b") = {}
        /\ \E d \in At("delete_tags") : \A i \in At("fetch") : d < i
        /\ \A t \in DOMAIN repo.tags :
              t \in DOMAIN Fetched.tags /\ repo.tags[t] = Fetched.tags[t]
        /\ log[Len(log)].arg = cur.who \o " --tags" => repo.tags = NoRefs
        /\ \E i \in At("create_remote") : log[i].ok /\ \A j \in At("fetch") : i < j
        /\ cur.who \in DOMAIN repo.remotes /\ repo.remotes[cur.who] = cur.name
        /\ repo.head.ref = cur.arg

\* The fetch failed in a sync of a team whose tracking branch, from an
\* earlier sync, is behind what the team has pushed since.
C19_Witness ==
    /\ cur.fn = "sync" /\ ret = "GitError" /\ Len(log) > 0 /\ log[Len(log)].op = "fetch"
    /\ TeamBranch(cur.who, cur.arg) \in DOMAIN cur.before
    /\ cur.arg \in DOMAIN Fetched.heads
    /\ repo.branches[TeamBranch(cur.who, cur.arg)] # Fetched.heads[cur.arg]

====
